---- MODULE Spec2Model ----
(***************************************************************************)
(* Model of the nova-automated-cluster-scanner: the inventory filter       *)
(* (pkg/nova), the configuration (pkg/config), the ticket deduplicator     *)
(* (pkg/github) and the invocation in cmd/scanner/main.go.                 *)
(*                                                                         *)
(* Go strings are sequences of one-character strings; the fixed pieces of  *)
(* a format string are single elements of such a sequence.                 *)
(***************************************************************************)
EXTENDS Integers, Sequences, FiniteSets, Bags, TLC

\* ------------------------------------------------------------------ bounds
\* Releases in one answer of `nova find --helm`.
MaxHelm == 2
\* Images in one answer of `nova find --containers`.
MaxContainers == 1
\* Invocations of the scanner in one behaviour.
MaxRuns == 2
\* Largest major/minor/patch number of the parsed versions handed to
\* calculateSeverity.
MaxVer == 2
\* Releases in an inventory handed to the filter alone.
MaxInv == 2

\* ----------------------------------------------------------------- strings
\* strings.Contains(s, sub)
Contains(s, sub) ==
    \E i \in 0..(Len(s) - Len(sub)) : SubSeq(s, i + 1, i + Len(sub)) = sub

\* strings.ReplaceAll(s, c, "") for a one-character c
RECURSIVE RemoveAll(_, _)
RemoveAll(s, c) ==
    IF s = <<>> THEN <<>>
    ELSE IF Head(s) = c THEN RemoveAll(Tail(s), c)
    ELSE <<Head(s)>> \o RemoveAll(Tail(s), c)

\* First position of c in s, 0 when absent.
IndexOf(s, c) ==
    IF \E i \in 1..Len(s) : s[i] = c
    THEN CHOOSE i \in 1..Len(s) : s[i] = c /\ \A j \in 1..(i - 1) : s[j] # c
    ELSE 0

\* ---------------------------------------------------------------- versions
Digits == {"0", "1", "2", "3", "4", "5", "6", "7", "8", "9"}

DigitVal(c) ==
    CASE c = "0" -> 0 [] c = "1" -> 1 [] c = "2" -> 2 [] c = "3" -> 3
      [] c = "4" -> 4 [] c = "5" -> 5 [] c = "6" -> 6 [] c = "7" -> 7
      [] c = "8" -> 8 [] c = "9" -> 9

IsNumber(s) == Len(s) > 0 /\ \A i \in 1..Len(s) : s[i] \in Digits

RECURSIVE NumVal(_)
NumVal(s) ==
    IF s = <<>> THEN 0
    ELSE 10 * NumVal(SubSeq(s, 1, Len(s) - 1)) + DigitVal(s[Len(s)])

\* The dot-separated pieces of s.
RECURSIVE SplitDots(_)
SplitDots(s) ==
    LET i == IndexOf(s, ".")
    IN  IF i = 0 THEN <<s>>
        ELSE <<SubSeq(s, 1, i - 1)>> \o SplitDots(SubSeq(s, i + 1, Len(s)))

PreChars == Digits \cup {"a", "b", "c", "e", "l", "p", "r", "t", "s", "-"}

\* A prerelease: dot-separated, non-empty pieces of letters, digits, hyphens.
IsPrerelease(s) ==
    LET parts == SplitDots(s)
    IN  \A k \in 1..Len(parts) :
            /\ Len(parts[k]) > 0
            /\ \A i \in 1..Len(parts[k]) : parts[k][i] \in PreChars

NoVersion == [ok |-> FALSE, Major |-> 0, Minor |-> 0, Patch |-> 0, Pre |-> <<>>]

\* semver.NewVersion: an optional "v", one to three dot-separated numbers
\* (missing ones are 0), an optional "-" prerelease.
NewVersion(str) ==
    LET s    == IF Len(str) > 0 /\ str[1] = "v" THEN Tail(str) ELSE str
        d    == IndexOf(s, "-")
        main == IF d = 0 THEN s ELSE SubSeq(s, 1, d - 1)
        pre  == IF d = 0 THEN <<>> ELSE SubSeq(s, d + 1, Len(s))
        nums == SplitDots(main)
        n    == Len(nums)
    IN  IF /\ n <= 3
           /\ \A k \in 1..n : IsNumber(nums[k])
           /\ (d = 0 \/ IsPrerelease(pre))
        THEN [ok    |-> TRUE,
              Major |-> NumVal(nums[1]),
              Minor |-> IF n >= 2 THEN NumVal(nums[2]) ELSE 0,
              Patch |-> IF n >= 3 THEN NumVal(nums[3]) ELSE 0,
              Pre   |-> pre]
        ELSE NoVersion

\* calculateSeverity with the patch comparison dropped.
calculateSeverityNoPatch(current, latest) ==
    IF latest.Major > current.Major THEN 3
    ELSE IF latest.Minor > current.Minor THEN 2
    ELSE 0

\* calculateSeverity: 3 = critical, 2 = major, 1 = minor, 0 = none.
calculateSeverity(current, latest) ==
    IF latest.Major > current.Major THEN 3
    ELSE IF latest.Minor > current.Minor THEN 2
    ELSE IF latest.Patch > current.Patch THEN 1
    ELSE 0

\* ----------------------------------------------------------- configuration
\* Config.SeverityLevel with the default branch returning critical.
SeverityLevelDefaultCritical(c) ==
    CASE c.MinSeverity = "critical" -> 3
      [] c.MinSeverity = "major"    -> 2
      [] OTHER                      -> 3

\* Config.SeverityLevel with the threshold minor letting every finding pass.
SeverityLevelMinorZero(c) ==
    CASE c.MinSeverity = "critical" -> 3
      [] c.MinSeverity = "major"    -> 2
      [] OTHER                      -> 0

\* Config.SeverityLevel
SeverityLevel(c) ==
    CASE c.MinSeverity = "critical" -> 3
      [] c.MinSeverity = "major"    -> 2
      [] OTHER                      -> 1

\* strings.ToLower, for the letters of the values the scanner compares.
ToLower(s) ==
    [i \in 1..Len(s) |->
        CASE s[i] = "T" -> "t" [] s[i] = "R" -> "r" [] s[i] = "U" -> "u"
          [] s[i] = "E" -> "e" [] s[i] = "F" -> "f" [] s[i] = "A" -> "a"
          [] s[i] = "L" -> "l" [] s[i] = "S" -> "s" [] s[i] = "Y" -> "y"
          [] OTHER -> s[i]]

\* applyEnvOverrides with DRY_RUN able to switch dry-run on only.
applyEnvOverridesOnlyEnables(c, dryRunEnv) ==
    IF dryRunEnv # <<>>
    THEN [c EXCEPT !.DryRun =
             \/ c.DryRun
             \/ ToLower(dryRunEnv) = <<"t", "r", "u", "e">>
             \/ dryRunEnv = <<"1">>]
    ELSE c

\* Config.applyEnvOverrides, the DRY_RUN variable; os.Getenv gives the empty
\* string for a variable that is not set.
applyEnvOverrides(c, dryRunEnv) ==
    IF dryRunEnv # <<>>
    THEN [c EXCEPT !.DryRun =
             \/ ToLower(dryRunEnv) = <<"t", "r", "u", "e">>
             \/ dryRunEnv = <<"1">>]
    ELSE c

\* Config.IsMarkdownMode
IsMarkdownMode(c) == c.OutputMode = "markdown"

\* Config.validate, the severity and output mode parts: "" when the values
\* are accepted.
validate(c) ==
    IF c.MinSeverity \notin {"minor", "major", "critical"}
    THEN "invalid minSeverity"
    ELSE IF c.OutputMode \notin {"github", "markdown"}
    THEN "invalid outputMode"
    ELSE ""

\* ShouldIgnoreVersion comparing whole strings.
ShouldIgnoreVersionExact(c, version) ==
    \E k \in 1..Len(c.IgnoreVersionPatterns) : version = c.IgnoreVersionPatterns[k]

\* Config.ShouldIgnoreVersion
ShouldIgnoreVersion(c, version) ==
    \E k \in 1..Len(c.IgnoreVersionPatterns) :
        Contains(version, c.IgnoreVersionPatterns[k])

\* ------------------------------------------------------------------ filter
\* meetsMinSeverity that drops what it cannot parse.
meetsMinSeverityFailClosed(c, currentVersion, latestVersion) ==
    LET current == NewVersion(currentVersion)
        latest  == NewVersion(latestVersion)
    IN  /\ current.ok
        /\ latest.ok
        /\ calculateSeverity(current, latest) >= SeverityLevel(c)

\* Scanner.meetsMinSeverity
meetsMinSeverity(c, currentVersion, latestVersion) ==
    LET current == NewVersion(currentVersion)
        latest  == NewVersion(latestVersion)
    IN  IF ~current.ok THEN TRUE
        ELSE IF ~latest.ok THEN TRUE
        ELSE calculateSeverity(current, latest) >= SeverityLevel(c)

\* shouldIgnoreRelease asking for both the release name and the chart name
\* to be listed.
shouldIgnoreReleaseBoth(c, release) ==
    /\ \E k \in 1..Len(c.IgnoreReleases) : release.ReleaseName = c.IgnoreReleases[k]
    /\ \E k \in 1..Len(c.IgnoreCharts) : release.ChartName = c.IgnoreCharts[k]

\* Scanner.shouldIgnoreRelease
shouldIgnoreRelease(c, release) ==
    \/ \E k \in 1..Len(c.IgnoreReleases) : release.ReleaseName = c.IgnoreReleases[k]
    \/ \E k \in 1..Len(c.IgnoreCharts) : release.ChartName = c.IgnoreCharts[k]

\* matchGlob
RECURSIVE matchGlob(_, _)

\* matchGlob taking what precedes the first "*" of the pattern as the prefix.
matchGlobAnyStar(pattern, s) ==
    IF pattern = <<"*">> THEN TRUE
    ELSE IF pattern = s THEN TRUE
    ELSE IF /\ Len(pattern) > 2
            /\ pattern[1] = "*"
            /\ pattern[2] = "/"
            /\ \E i \in 1..Len(s) :
                   /\ s[i] = "/"
                   /\ matchGlob(SubSeq(pattern, 3, Len(pattern)), SubSeq(s, i + 1, Len(s)))
         THEN TRUE
    ELSE IF /\ Len(pattern) > 1
            /\ IndexOf(pattern, "*") > 0
            /\ Len(s) >= IndexOf(pattern, "*") - 1
            /\ SubSeq(s, 1, IndexOf(pattern, "*") - 1)
                   = SubSeq(pattern, 1, IndexOf(pattern, "*") - 1)
         THEN TRUE
    ELSE FALSE

\* matchGlob trying only the first "/" of the candidate.
matchGlobFirstSlash(pattern, s) ==
    IF pattern = <<"*">> THEN TRUE
    ELSE IF pattern = s THEN TRUE
    ELSE IF /\ Len(pattern) > 2
            /\ pattern[1] = "*"
            /\ pattern[2] = "/"
            /\ IndexOf(s, "/") > 0
            /\ matchGlob(SubSeq(pattern, 3, Len(pattern)),
                         SubSeq(s, IndexOf(s, "/") + 1, Len(s)))
         THEN TRUE
    ELSE IF /\ Len(pattern) > 1
            /\ pattern[Len(pattern)] = "*"
            /\ Len(s) >= Len(pattern) - 1
            /\ SubSeq(s, 1, Len(pattern) - 1) = SubSeq(pattern, 1, Len(pattern) - 1)
         THEN TRUE
    ELSE FALSE

matchGlob(pattern, s) ==
    IF pattern = <<"*">> THEN TRUE
    ELSE IF pattern = s THEN TRUE
    ELSE IF /\ Len(pattern) > 2
            /\ pattern[1] = "*"
            /\ pattern[2] = "/"
            /\ \E i \in 1..Len(s) :
                   /\ s[i] = "/"
                   /\ matchGlob(SubSeq(pattern, 3, Len(pattern)), SubSeq(s, i + 1, Len(s)))
         THEN TRUE
    ELSE IF /\ Len(pattern) > 1
            /\ pattern[Len(pattern)] = "*"
            /\ Len(s) >= Len(pattern) - 1
            /\ SubSeq(s, 1, Len(pattern) - 1) = SubSeq(pattern, 1, Len(pattern) - 1)
         THEN TRUE
    ELSE FALSE

\* Scanner.shouldIgnoreContainer
shouldIgnoreContainer(c, container) ==
    \E k \in 1..Len(c.IgnoreImages) : matchGlob(c.IgnoreImages[k], container.Name)

\* shouldSkipContainerForHelm that skips as soon as one workload is covered.
shouldSkipContainerForHelmAny(container, skipNamespaces) ==
    /\ skipNamespaces # {}
    /\ \E k \in 1..Len(container.AffectedWorkloads) :
           container.AffectedWorkloads[k].Namespace \in skipNamespaces

\* Scanner.shouldSkipContainerForHelm; the map is the set of its keys, every
\* key being set to true.
shouldSkipContainerForHelm(container, skipNamespaces) ==
    IF skipNamespaces = {} THEN FALSE
    ELSE IF Len(container.AffectedWorkloads) = 0 THEN FALSE
    ELSE \A k \in 1..Len(container.AffectedWorkloads) :
             container.AffectedWorkloads[k].Namespace \in skipNamespaces

\* ScanHelm, the ignore-list pass over the decoded releases.
RECURSIVE FilterReleases(_, _)
FilterReleases(c, releases) ==
    IF releases = <<>> THEN <<>>
    ELSE IF shouldIgnoreRelease(c, Head(releases))
         THEN FilterReleases(c, Tail(releases))
         ELSE <<Head(releases)>> \o FilterReleases(c, Tail(releases))

\* ScanHelm, the second pass: outdated, not blacklisted, severe enough.
RECURSIVE OutdatedReleases(_, _)
OutdatedReleases(c, filtered) ==
    IF filtered = <<>> THEN <<>>
    ELSE LET release == Head(filtered)
             rest    == OutdatedReleases(c, Tail(filtered))
         IN  IF ~release.IsOld THEN rest
             ELSE IF ShouldIgnoreVersion(c, release.Latest) THEN rest
             ELSE IF meetsMinSeverity(c, release.Installed, release.Latest)
                  THEN <<release>> \o rest
             ELSE rest

\* ScanHelm that keeps only the first release that passes.
ScanHelmFirstOnly(c, releases) ==
    LET filtered == FilterReleases(c, releases)
        outdated == OutdatedReleases(c, filtered)
    IN  [AllReleases |-> filtered,
         Outdated    |-> IF outdated = <<>> THEN <<>> ELSE <<Head(outdated)>>]

\* Scanner.ScanHelm on a decoded answer of nova: the HelmScanResult.
ScanHelm(c, releases) ==
    LET filtered == FilterReleases(c, releases)
    IN  [AllReleases |-> filtered, Outdated |-> OutdatedReleases(c, filtered)]

\* A namespace set that ignores the Helm result: no namespace at all.
OutdatedNamespacesNil(result) == {}

\* The namespaces of every release the scan kept, outdated or not.
OutdatedNamespacesOfAll(result) ==
    {result.AllReleases[k].Namespace : k \in 1..Len(result.AllReleases)}

\* HelmScanResult.OutdatedNamespaces
OutdatedNamespaces(result) ==
    {result.Outdated[k].Namespace : k \in 1..Len(result.Outdated)}

\* ScanContainers, the ignore-list pass.
RECURSIVE FilterContainers(_, _)
FilterContainers(c, containers) ==
    IF containers = <<>> THEN <<>>
    ELSE IF shouldIgnoreContainer(c, Head(containers))
         THEN FilterContainers(c, Tail(containers))
         ELSE <<Head(containers)>> \o FilterContainers(c, Tail(containers))

\* ScanContainers, the second pass: what each kept container becomes.
ContainerFate(c, container, skipNamespaces) ==
    IF ~container.IsOld THEN "current"
    ELSE IF ShouldIgnoreVersion(c, container.LatestTag) THEN "blacklisted"
    ELSE IF shouldSkipContainerForHelm(container, skipNamespaces) THEN "skipped"
    ELSE "outdated"

RECURSIVE ContainersWithFate(_, _, _, _)
ContainersWithFate(c, filtered, skipNamespaces, fate) ==
    IF filtered = <<>> THEN <<>>
    ELSE IF ContainerFate(c, Head(filtered), skipNamespaces) = fate
         THEN <<Head(filtered)>> \o ContainersWithFate(c, Tail(filtered), skipNamespaces, fate)
         ELSE ContainersWithFate(c, Tail(filtered), skipNamespaces, fate)

\* ScanContainers that reports the skipped containers as outdated too.
ScanContainersActOnSkipped(c, containers, skipNamespaces) ==
    LET filtered == FilterContainers(c, containers)
    IN  [AllContainers |-> filtered,
         Outdated      |-> ContainersWithFate(c, filtered, skipNamespaces, "outdated")
                           \o ContainersWithFate(c, filtered, skipNamespaces, "skipped"),
         Skipped       |-> ContainersWithFate(c, filtered, skipNamespaces, "skipped")]

\* Scanner.ScanContainers on a decoded answer of nova: the ContainerScanResult.
ScanContainers(c, containers, skipNamespaces) ==
    LET filtered == FilterContainers(c, containers)
    IN  [AllContainers |-> filtered,
         Outdated      |-> ContainersWithFate(c, filtered, skipNamespaces, "outdated"),
         Skipped       |-> ContainersWithFate(c, filtered, skipNamespaces, "skipped")]

\* ------------------------------------------------------------------ decode
\* What nova wrote on its standard output, as far as encoding/json tells the
\* shapes apart: a JSON object, whose fields helm_releases and container_images
\* may be absent, hold a value of another type than an array of objects, or hold
\* a list; a bare JSON array; or text that is not JSON.
\*
\* json.Unmarshal(output, &novaOutput): it fails on text that is not JSON, on
\* an array, and on an object one of whose known fields has the wrong type; an
\* absent field leaves the list empty.
UnmarshalNovaOutput(doc) ==
    IF /\ doc.kind = "object"
       /\ (doc.helm_releases.present => doc.helm_releases.wellTyped)
       /\ (doc.container_images.present => doc.container_images.wellTyped)
    THEN [ok |-> TRUE,
          HelmReleases |-> doc.helm_releases.items,
          Containers |-> doc.container_images.items]
    ELSE [ok |-> FALSE, HelmReleases |-> <<>>, Containers |-> <<>>]

\* json.Unmarshal(output, &releases) for a slice: only a JSON array decodes.
UnmarshalArray(doc) ==
    IF doc.kind = "array" THEN [ok |-> TRUE, items |-> doc.items]
    ELSE [ok |-> FALSE, items |-> <<>>]

\* ScanHelm, the parse of the output of nova: the object form first, the bare
\* array of older versions of nova next, an error when both fail.
ParseHelmOutput(doc) ==
    LET novaOutput == UnmarshalNovaOutput(doc)
        releases   == UnmarshalArray(doc)
    IN  IF novaOutput.ok THEN [ok |-> TRUE, items |-> novaOutput.HelmReleases]
        ELSE IF releases.ok THEN [ok |-> TRUE, items |-> releases.items]
        ELSE [ok |-> FALSE, items |-> <<>>]

\* ScanContainers, the parse of the output of nova: the object form only.
ParseContainerOutput(doc) ==
    LET novaOutput == UnmarshalNovaOutput(doc)
    IN  IF novaOutput.ok THEN [ok |-> TRUE, items |-> novaOutput.Containers]
        ELSE [ok |-> FALSE, items |-> <<>>]

\* ----------------------------------------------------------------- tickets
\* FormatHelmIssueTitle
FormatHelmIssueTitle(release) ==
    <<"[Nova] Update Helm chart: ">> \o release.ReleaseName \o <<" (">>
        \o release.Installed \o <<" -> ">> \o release.Latest \o <<")">>

\* FormatContainerIssueTitle
FormatContainerIssueTitle(container) ==
    <<"[Nova] Update container image: ">> \o container.Name \o <<" (">>
        \o container.CurrentTag \o <<" -> ">> \o container.LatestTag \o <<")">>

\* escapeSearchQuery
escapeSearchQuery(s) == RemoveAll(RemoveAll(s, "\""), "\\")

\* An issue that the qualifiers of the search no longer select: it was
\* closed, or its nova-scan label was removed. The tracker keeps it.
Closed(title) == <<"closed">> \o title

\* A search without the qualifiers: every issue of the repository.
AllIssues(all) == all

\* issueExists, the qualifiers `is:issue is:open label:nova-scan` of the
\* query: the issues of the tracker among which the title is searched.
OpenIssues(all) ==
    [t \in {x \in BagToSet(all) : Head(x) # "closed"} |-> all[t]]

\* issueExists that never finds anything.
issueExistsNever(open, title) == FALSE

\* issueExists, the search answered: some open issue labelled nova-scan holds
\* the escaped title in its title. `open` is the bag of the titles of the open
\* issues that carry the label.
issueExists(open, title) ==
    \E t \in BagToSet(open) : Contains(t, escapeSearchQuery(title))

\* AfterSearch taking a failed search for "no such issue".
AfterSearchErrorAsAbsent(failed, exists, dryRun) ==
    IF exists /\ ~failed THEN "skipped"
    ELSE IF dryRun THEN "dryRun"
    ELSE "create"

\* AfterSearch with the dry-run test left out.
AfterSearchNoDryRun(failed, exists, dryRun) ==
    IF failed THEN "searchError"
    ELSE IF exists THEN "skipped"
    ELSE "create"

\* CreateHelmIssue and CreateContainerIssue between the search and the create
\* call: the error is returned, a duplicate is skipped, a dry run only logs.
AfterSearch(failed, exists, dryRun) ==
    IF failed THEN "searchError"
    ELSE IF exists THEN "skipped"
    ELSE IF dryRun THEN "dryRun"
    ELSE "create"

\* ------------------------------------------------------------------ inputs
\* The sequences over S of length at most n.
RECURSIVE SeqsUpTo(_, _)
SeqsUpTo(S, n) ==
    IF n = 0 THEN {<<>>}
    ELSE LET shorter == SeqsUpTo(S, n - 1)
         IN  shorter \cup
             {Append(q, x) : q \in {r \in shorter : Len(r) = n - 1}, x \in S}

V100 == <<"1", ".", "0", ".", "0">>
V101 == <<"1", ".", "0", ".", "1">>
V110 == <<"1", ".", "1", ".", "0">>
V200 == <<"2", ".", "0", ".", "0">>
V200rc == <<"2", ".", "0", ".", "0", "-", "r", "c">>
V100rc == <<"1", ".", "0", ".", "0", "-", "r", "c">>
T120 == <<"1", ".", "2", "0">>
T125 == <<"1", ".", "2", "5">>
T60 == <<"6", ".", "0">>
Tlatest == <<"l", "a", "t", "e", "s", "t">>

NsA == <<"a">>
NsB == <<"b">>

Release(name, chart, ns, installed, latest, old) ==
    [ReleaseName |-> name, ChartName |-> chart, Namespace |-> ns,
     Installed |-> installed, Latest |-> latest, IsOld |-> old,
     Deprecated |-> FALSE]

Container(name, current, latest, old, namespaces) ==
    [Name |-> name, CurrentTag |-> current, LatestTag |-> latest, IsOld |-> old,
     AffectedWorkloads |->
        [k \in 1..Len(namespaces) |-> [Name |-> <<"w">>, Namespace |-> namespaces[k]]]]

\* What the cluster may hold when the scanner runs: two releases of the same
\* name in two namespaces, a patch-level update, and two images.
ClusterReleases ==
    {Release(<<"r", "1">>, <<"c", "1">>, NsA, V100, V200, TRUE),
     Release(<<"r", "1">>, <<"c", "1">>, NsB, V100, V200, TRUE),
     Release(<<"r", "2">>, <<"c", "2">>, NsA, V100, V101, TRUE)}

ClusterContainers ==
    {Container(<<"n", "g", "x">>, T120, T125, TRUE, <<NsA>>),
     Container(<<"r", "d", "s">>, T60, Tlatest, TRUE, <<>>)}

\* A release is one (namespace, name) of the cluster, an image one (name, tag).
HelmAnswers ==
    {q \in SeqsUpTo(ClusterReleases, MaxHelm) :
        \A i, j \in 1..Len(q) :
            (q[i].Namespace = q[j].Namespace /\ q[i].ReleaseName = q[j].ReleaseName)
                => i = j}

ContainerAnswers ==
    {q \in SeqsUpTo(ClusterContainers, MaxContainers) :
        \A i, j \in 1..Len(q) :
            (q[i].Name = q[j].Name /\ q[i].CurrentTag = q[j].CurrentTag) => i = j}

\* The configurations an invocation may load (Load, before validate): those
\* of the GitHub output mode, and those of the markdown preview, which reads
\* neither the dry-run flag nor the tracker.
GithubConfigs ==
    [ScanHelm : BOOLEAN, ScanContainers : BOOLEAN, DryRun : BOOLEAN,
     MinSeverity : {"minor", "critical", "high"},
     IgnoreReleases : {<<>>}, IgnoreCharts : {<<>>},
     IgnoreImages : {<< <<"*", "/", "p", ":", "*">> >>},
     IgnoreVersionPatterns : {<< <<"-", "r", "c">> >>},
     OutputMode : {"github"}, PushgatewayURL : {""}]

MarkdownConfigs ==
    [ScanHelm : BOOLEAN, ScanContainers : BOOLEAN, DryRun : {FALSE},
     MinSeverity : {"minor"},
     IgnoreReleases : {<<>>}, IgnoreCharts : {<<>>},
     IgnoreImages : {<< <<"*", "/", "p", ":", "*">> >>},
     IgnoreVersionPatterns : {<< <<"-", "r", "c">> >>},
     OutputMode : {"markdown"}, PushgatewayURL : {""}]

RunConfigs == GithubConfigs \cup MarkdownConfigs

\* ------------------------------------------------------------------- state
VARIABLES
    configFile,      \* what Load reads: the file with the environment applied
    novaHelm,        \* what `nova find --helm` answers when it succeeds
    novaContainers,  \* what `nova find --containers` answers when it succeeds
    tickets,         \* the tracker: the bag of titles of open nova-scan issues
    runs,            \* invocations started so far
    inv,             \* per invocation slot: the state of main
    prev,            \* the first of two invocations in sequence, once it exited
    fnCall,          \* a single call of one function of the filter
    fnRes            \* and its result

vars == <<configFile, novaHelm, novaContainers, tickets, runs, inv, prev, fnCall, fnRes>>

\* Slots for invocations of the scanner.
Procs == {"inv1", "inv2"}

NoConfig ==
    [ScanHelm |-> FALSE, ScanContainers |-> FALSE, DryRun |-> FALSE,
     MinSeverity |-> "", IgnoreReleases |-> <<>>, IgnoreCharts |-> <<>>,
     IgnoreImages |-> <<>>, IgnoreVersionPatterns |-> <<>>, OutputMode |-> "",
     PushgatewayURL |-> ""]

\* metrics.NewMetrics followed by Reset: every counter and gauge at zero.
NewMetrics ==
    [ScanErrorsTotal |-> 0,
     IssuesCreatedTotal |-> [helm |-> 0, container |-> 0],
     OutdatedHelmChartsTotal |-> 0, OutdatedContainersTotal |-> 0,
     HelmChartVersionInfo |-> {}, ContainerVersionInfo |-> {}]

\* main before config.Load returns.
IdleInv ==
    [pc |-> "idle", cfg |-> NoConfig, loadErr |-> "", hadError |-> FALSE,
     exit |-> -1, outdatedHelmNamespaces |-> {},
     helm |-> [status |-> "none", AllReleases |-> <<>>, Outdated |-> <<>>],
     cont |-> [status |-> "none", AllContainers |-> <<>>, Outdated |-> <<>>,
               Skipped |-> <<>>],
     i |-> 0, events |-> <<>>, m |-> NewMetrics,
     sb |-> <<>>, written |-> FALSE, pushed |-> "none"]

Resting(p) == inv[p].pc \in {"idle", "done"}

\* The logger calls of the issue manager and of main's loops, kept in order.
Log(r, kind, type, title) ==
    Append(r.events, [kind |-> kind, type |-> type, title |-> title])

Init ==
    /\ configFile \in RunConfigs
    /\ novaHelm \in HelmAnswers
    /\ novaContainers \in ContainerAnswers
    /\ tickets = EmptyBag
    /\ runs = 0
    /\ inv = [p \in Procs |-> IdleInv]
    /\ prev = IdleInv
    /\ fnCall = [op |-> "none"]
    /\ fnRes = [done |-> FALSE]

\* main starting with a namespace set that is not empty.
BeginWithNamespaces(c) ==
    [IdleInv EXCEPT !.pc = IF IsMarkdownMode(c) THEN "markdown" ELSE "helm",
                    !.cfg = c, !.outdatedHelmNamespaces = {NsA}]

\* main up to the first scan: Load with validate; a rejected configuration
\* ends the process with status 1, the markdown mode goes its own way.
Begin(c) ==
    LET err == validate(c)
    IN  IF err # ""
        THEN [IdleInv EXCEPT !.pc = "done", !.cfg = c, !.loadErr = err, !.exit = 1]
        ELSE IF IsMarkdownMode(c)
        THEN [IdleInv EXCEPT !.pc = "markdown", !.cfg = c]
        ELSE [IdleInv EXCEPT !.pc = "helm", !.cfg = c]

Start(p) ==
    /\ Resting(p)
    /\ runs < MaxRuns
    /\ runs' = runs + 1
    /\ inv' = [inv EXCEPT ![p] = Begin(configFile)]
    /\ UNCHANGED <<configFile, novaHelm, novaContainers, tickets, prev, fnCall, fnRes>>

\* The first of two invocations over an unchanged cluster and configuration.
First(p) ==
    /\ inv[p].pc = "idle"
    /\ Start(p)

\* The second one, started once the first has exited; `prev` keeps what the
\* first did.
Rerun(p) ==
    /\ inv[p].pc = "done"
    /\ prev = IdleInv
    /\ prev' = inv[p]
    /\ runs' = runs + 1
    /\ inv' = [inv EXCEPT ![p] = Begin(configFile)]
    /\ UNCHANGED <<configFile, novaHelm, novaContainers, tickets, fnCall, fnRes>>

\* main, the Helm block up to the issue loop.
StepScanHelm(p) ==
    /\ inv[p].pc = "helm"
    /\ LET r == inv[p]
       IN  IF ~r.cfg.ScanHelm
           THEN inv' = [inv EXCEPT ![p] = [r EXCEPT !.pc = "containers"]]
           ELSE \E outcome \in {"ok", "commandFailed", "undecodable"} :
                    IF outcome # "ok"
                    THEN inv' = [inv EXCEPT ![p] =
                            [r EXCEPT !.pc = "containers",
                                      !.helm.status = "error",
                                      !.m.ScanErrorsTotal = @ + 1,
                                      !.hadError = TRUE]]
                    ELSE LET result == ScanHelm(r.cfg, novaHelm)
                         IN  inv' = [inv EXCEPT ![p] =
                                [r EXCEPT
                                    !.helm = [status |-> "ok",
                                              AllReleases |-> result.AllReleases,
                                              Outdated |-> result.Outdated],
                                    !.m.OutdatedHelmChartsTotal = Len(result.Outdated),
                                    !.outdatedHelmNamespaces = OutdatedNamespaces(result),
                                    !.m.HelmChartVersionInfo =
                                        {result.Outdated[k] : k \in 1..Len(result.Outdated)},
                                    !.i = IF result.Outdated = <<>> THEN 0 ELSE 1,
                                    !.pc = IF result.Outdated = <<>>
                                           THEN "containers" ELSE "helmSearch"]]
    /\ UNCHANGED <<configFile, novaHelm, novaContainers, tickets, runs, prev, fnCall, fnRes>>

\* main, the end of one round of the loop over the outdated releases.
NextHelm(r) ==
    IF r.i < Len(r.helm.Outdated)
    THEN [r EXCEPT !.i = r.i + 1, !.pc = "helmSearch"]
    ELSE [r EXCEPT !.i = 0, !.pc = "containers"]

\* CreateHelmIssue up to the create call: title, search, duplicate, dry run;
\* `failed` is whether the search call returned an error.
HelmSearchAnswered(p, failed) ==
    /\ inv[p].pc = "helmSearch"
    /\ LET r     == inv[p]
           title == FormatHelmIssueTitle(r.helm.Outdated[r.i])
       IN  inv' = [inv EXCEPT ![p] =
               LET outcome == AfterSearch(failed, issueExists(OpenIssues(tickets), title), r.cfg.DryRun)
               IN  IF outcome = "create"
                   THEN [r EXCEPT !.pc = "helmCreate"]
                   ELSE NextHelm([r EXCEPT !.events = Log(r, outcome, "helm", title)])]
    /\ UNCHANGED <<configFile, novaHelm, novaContainers, tickets, runs, prev, fnCall, fnRes>>

HelmSearch(p) == \E failed \in BOOLEAN : HelmSearchAnswered(p, failed)

\* HelmCreate ending the issue loops on a failed create call.
HelmCreateAbort(p) ==
    /\ inv[p].pc = "helmCreate"
    /\ LET r     == inv[p]
           title == FormatHelmIssueTitle(r.helm.Outdated[r.i])
       IN  \E failed \in BOOLEAN :
               IF failed
               THEN /\ inv' = [inv EXCEPT ![p] =
                        [r EXCEPT !.events = Log(r, "createError", "helm", title),
                                  !.hadError = TRUE, !.i = 0, !.pc = "push"]]
                    /\ tickets' = tickets
               ELSE /\ inv' = [inv EXCEPT ![p] =
                        NextHelm([r EXCEPT !.events = Log(r, "created", "helm", title),
                                           !.m.IssuesCreatedTotal.helm = @ + 1])]
                    /\ tickets' = tickets (+) SetToBag({title})
    /\ UNCHANGED <<configFile, novaHelm, novaContainers, runs, prev, fnCall, fnRes>>

\* CreateHelmIssue, the create call, and main's RecordIssueCreated.
HelmCreate(p) ==
    /\ inv[p].pc = "helmCreate"
    /\ LET r     == inv[p]
           title == FormatHelmIssueTitle(r.helm.Outdated[r.i])
       IN  \E failed \in BOOLEAN :
               IF failed
               THEN /\ inv' = [inv EXCEPT ![p] =
                        NextHelm([r EXCEPT !.events = Log(r, "createError", "helm", title)])]
                    /\ tickets' = tickets
               ELSE /\ inv' = [inv EXCEPT ![p] =
                        NextHelm([r EXCEPT !.events = Log(r, "created", "helm", title),
                                           !.m.IssuesCreatedTotal.helm = @ + 1])]
                    /\ tickets' = tickets (+) SetToBag({title})
    /\ UNCHANGED <<configFile, novaHelm, novaContainers, runs, prev, fnCall, fnRes>>

\* main, the container block up to the issue loop.
StepScanContainers(p) ==
    /\ inv[p].pc = "containers"
    /\ LET r == inv[p]
       IN  IF ~r.cfg.ScanContainers
           THEN inv' = [inv EXCEPT ![p] = [r EXCEPT !.pc = "push"]]
           ELSE \E outcome \in {"ok", "commandFailed", "undecodable"} :
                    IF outcome # "ok"
                    THEN inv' = [inv EXCEPT ![p] =
                            [r EXCEPT !.pc = "push",
                                      !.cont.status = "error",
                                      !.m.ScanErrorsTotal = @ + 1,
                                      !.hadError = TRUE]]
                    ELSE LET result == ScanContainers(r.cfg, novaContainers,
                                                      r.outdatedHelmNamespaces)
                         IN  inv' = [inv EXCEPT ![p] =
                                [r EXCEPT
                                    !.cont = [status |-> "ok",
                                              AllContainers |-> result.AllContainers,
                                              Outdated |-> result.Outdated,
                                              Skipped |-> result.Skipped],
                                    !.m.OutdatedContainersTotal = Len(result.Outdated),
                                    !.m.ContainerVersionInfo =
                                        {result.Outdated[k] : k \in 1..Len(result.Outdated)},
                                    !.i = IF result.Outdated = <<>> THEN 0 ELSE 1,
                                    !.pc = IF result.Outdated = <<>>
                                           THEN "push" ELSE "containerSearch"]]
    /\ UNCHANGED <<configFile, novaHelm, novaContainers, tickets, runs, prev, fnCall, fnRes>>

\* main, the end of one round of the loop over the outdated containers.
NextContainer(r) ==
    IF r.i < Len(r.cont.Outdated)
    THEN [r EXCEPT !.i = r.i + 1, !.pc = "containerSearch"]
    ELSE [r EXCEPT !.i = 0, !.pc = "push"]

\* CreateContainerIssue up to the create call.
ContainerSearchAnswered(p, failed) ==
    /\ inv[p].pc = "containerSearch"
    /\ LET r     == inv[p]
           title == FormatContainerIssueTitle(r.cont.Outdated[r.i])
       IN  inv' = [inv EXCEPT ![p] =
               LET outcome == AfterSearch(failed, issueExists(OpenIssues(tickets), title), r.cfg.DryRun)
               IN  IF outcome = "create"
                   THEN [r EXCEPT !.pc = "containerCreate"]
                   ELSE NextContainer([r EXCEPT !.events = Log(r, outcome, "container", title)])]
    /\ UNCHANGED <<configFile, novaHelm, novaContainers, tickets, runs, prev, fnCall, fnRes>>

ContainerSearch(p) == \E failed \in BOOLEAN : ContainerSearchAnswered(p, failed)

\* CreateContainerIssue, the create call, and main's RecordIssueCreated.
ContainerCreate(p) ==
    /\ inv[p].pc = "containerCreate"
    /\ LET r     == inv[p]
           title == FormatContainerIssueTitle(r.cont.Outdated[r.i])
       IN  \E failed \in BOOLEAN :
               IF failed
               THEN /\ inv' = [inv EXCEPT ![p] =
                        NextContainer([r EXCEPT !.events = Log(r, "createError", "container", title)])]
                    /\ tickets' = tickets
               ELSE /\ inv' = [inv EXCEPT ![p] =
                        NextContainer([r EXCEPT !.events = Log(r, "created", "container", title),
                                                !.m.IssuesCreatedTotal.container = @ + 1])]
                    /\ tickets' = tickets (+) SetToBag({title})
    /\ UNCHANGED <<configFile, novaHelm, novaContainers, runs, prev, fnCall, fnRes>>

\* Metrics.Push as main calls it: nothing is sent without a push URL.
Push(url, failed) ==
    IF url = "" THEN "none" ELSE IF failed THEN "failed" ELSE "ok"

\* Exit with a failed metrics push counted as a failure of the run.
ExitFailsOnPushError(p) ==
    /\ inv[p].pc = "push"
    /\ \E failed \in BOOLEAN :
           LET pushed == Push(inv[p].cfg.PushgatewayURL, failed)
           IN  inv' = [inv EXCEPT ![p] =
                   [inv[p] EXCEPT !.pc = "done", !.pushed = pushed,
                                  !.exit = IF inv[p].hadError \/ pushed = "failed"
                                           THEN 1 ELSE 0]]
    /\ UNCHANGED <<configFile, novaHelm, novaContainers, tickets, runs, prev, fnCall, fnRes>>

\* main, from the metrics push to the exit status: a failed push is logged.
Exit(p) ==
    /\ inv[p].pc = "push"
    /\ \E failed \in BOOLEAN :
           inv' = [inv EXCEPT ![p] =
               [inv[p] EXCEPT !.pc = "done",
                              !.pushed = Push(inv[p].cfg.PushgatewayURL, failed),
                              !.exit = IF inv[p].hadError THEN 1 ELSE 0]]
    /\ UNCHANGED <<configFile, novaHelm, novaContainers, tickets, runs, prev, fnCall, fnRes>>

\* runMarkdownMode, opening the output file when one is configured.
MarkdownOpen(p) ==
    /\ inv[p].pc = "markdown"
    /\ \E failed \in BOOLEAN :
           inv' = [inv EXCEPT ![p] =
               IF failed THEN [inv[p] EXCEPT !.pc = "done", !.exit = 1]
               ELSE [inv[p] EXCEPT !.pc = "mdHelm"]]
    /\ UNCHANGED <<configFile, novaHelm, novaContainers, tickets, runs, prev, fnCall, fnRes>>

\* runMarkdownMode, the Helm block: a failed scan is returned as the error
\* of the whole mode, and main exits with status 1.
MarkdownScanHelm(p) ==
    /\ inv[p].pc = "mdHelm"
    /\ LET r == inv[p]
       IN  IF ~r.cfg.ScanHelm
           THEN inv' = [inv EXCEPT ![p] = [r EXCEPT !.pc = "mdContainers"]]
           ELSE \E outcome \in {"ok", "commandFailed", "undecodable"} :
                    IF outcome # "ok"
                    THEN inv' = [inv EXCEPT ![p] =
                            [r EXCEPT !.pc = "done", !.helm.status = "error", !.exit = 1]]
                    ELSE LET result == ScanHelm(r.cfg, novaHelm)
                         IN  inv' = [inv EXCEPT ![p] =
                                [r EXCEPT
                                    !.helm = [status |-> "ok",
                                              AllReleases |-> result.AllReleases,
                                              Outdated |-> result.Outdated],
                                    !.outdatedHelmNamespaces = OutdatedNamespaces(result),
                                    !.sb = [k \in 1..Len(result.Outdated) |->
                                               FormatHelmIssueTitle(result.Outdated[k])],
                                    !.pc = "mdContainers"]]
    /\ UNCHANGED <<configFile, novaHelm, novaContainers, tickets, runs, prev, fnCall, fnRes>>

\* runMarkdownMode, the container block.
MarkdownScanContainers(p) ==
    /\ inv[p].pc = "mdContainers"
    /\ LET r == inv[p]
       IN  IF ~r.cfg.ScanContainers
           THEN inv' = [inv EXCEPT ![p] = [r EXCEPT !.pc = "mdWrite"]]
           ELSE \E outcome \in {"ok", "commandFailed", "undecodable"} :
                    IF outcome # "ok"
                    THEN inv' = [inv EXCEPT ![p] =
                            [r EXCEPT !.pc = "done", !.cont.status = "error", !.exit = 1]]
                    ELSE LET result == ScanContainers(r.cfg, novaContainers,
                                                      r.outdatedHelmNamespaces)
                         IN  inv' = [inv EXCEPT ![p] =
                                [r EXCEPT
                                    !.cont = [status |-> "ok",
                                              AllContainers |-> result.AllContainers,
                                              Outdated |-> result.Outdated,
                                              Skipped |-> result.Skipped],
                                    !.sb = r.sb \o
                                           [k \in 1..Len(result.Outdated) |->
                                               FormatContainerIssueTitle(result.Outdated[k])],
                                    !.pc = "mdWrite"]]
    /\ UNCHANGED <<configFile, novaHelm, novaContainers, tickets, runs, prev, fnCall, fnRes>>

\* runMarkdownMode, writing the preview, and main's exit.
MarkdownWrite(p) ==
    /\ inv[p].pc = "mdWrite"
    /\ \E failed \in BOOLEAN :
           inv' = [inv EXCEPT ![p] =
               IF failed THEN [inv[p] EXCEPT !.pc = "done", !.exit = 1]
               ELSE [inv[p] EXCEPT !.pc = "done", !.written = TRUE, !.exit = 0]]
    /\ UNCHANGED <<configFile, novaHelm, novaContainers, tickets, runs, prev, fnCall, fnRes>>

\* Between invocations the configuration or the cluster changes, one part at
\* a time; no memory of a finished process is left.
Drift ==
    /\ \A p \in Procs : Resting(p)
    /\ runs >= 1
    /\ runs < MaxRuns
    /\ \/ /\ configFile' \in RunConfigs
          /\ UNCHANGED <<novaHelm, novaContainers>>
       \/ /\ novaHelm' \in HelmAnswers
          /\ UNCHANGED <<configFile, novaContainers>>
       \/ /\ novaContainers' \in ContainerAnswers
          /\ UNCHANGED <<configFile, novaHelm>>
    /\ inv' = [p \in Procs |-> IdleInv]
    /\ prev' = IdleInv
    /\ UNCHANGED <<tickets, runs, fnCall, fnRes>>

\* One invocation at a time, as the scheduler of the deployment runs them.
Next ==
    \/ Start("inv1")
    \/ StepScanHelm("inv1")
    \/ HelmSearch("inv1")
    \/ HelmCreate("inv1")
    \/ StepScanContainers("inv1")
    \/ ContainerSearch("inv1")
    \/ ContainerCreate("inv1")
    \/ Exit("inv1")
    \/ MarkdownOpen("inv1")
    \/ MarkdownScanHelm("inv1")
    \/ MarkdownScanContainers("inv1")
    \/ MarkdownWrite("inv1")
    \/ Drift

Spec == Init /\ [][Next]_vars

\* Two invocations in sequence, nothing else changing in between.
NextRerun ==
    \/ First("inv1")
    \/ Rerun("inv1")
    \/ StepScanHelm("inv1")
    \/ HelmSearch("inv1")
    \/ HelmCreate("inv1")
    \/ StepScanContainers("inv1")
    \/ ContainerSearch("inv1")
    \/ ContainerCreate("inv1")
    \/ Exit("inv1")
    \/ MarkdownOpen("inv1")
    \/ MarkdownScanHelm("inv1")
    \/ MarkdownScanContainers("inv1")
    \/ MarkdownWrite("inv1")

SpecRerun == Init /\ [][NextRerun]_vars

\* Somebody closes an open issue, or takes its label away, between the first
\* invocation and the second.
Close ==
    /\ inv["inv1"].pc = "done"
    /\ prev = IdleInv
    /\ \E t \in BagToSet(OpenIssues(tickets)) :
           tickets' = (tickets (-) SetToBag({t})) (+) SetToBag({Closed(t)})
    /\ UNCHANGED <<configFile, novaHelm, novaContainers, runs, inv, prev, fnCall, fnRes>>

\* Two invocations of the GitHub mode, dry-run off, in sequence over an
\* unchanged cluster, issues being closed in between.
CloseConfigs == {c \in GithubConfigs : ~c.DryRun /\ c.MinSeverity = "minor"}

InitClose ==
    /\ configFile \in CloseConfigs
    /\ novaHelm \in HelmAnswers
    /\ novaContainers \in ContainerAnswers
    /\ tickets = EmptyBag
    /\ runs = 0
    /\ inv = [p \in Procs |-> IdleInv]
    /\ prev = IdleInv
    /\ fnCall = [op |-> "none"]
    /\ fnRes = [done |-> FALSE]

NextClose ==
    \/ First("inv1")
    \/ Close
    \/ Rerun("inv1")
    \/ StepScanHelm("inv1")
    \/ HelmSearch("inv1")
    \/ HelmCreate("inv1")
    \/ StepScanContainers("inv1")
    \/ ContainerSearch("inv1")
    \/ ContainerCreate("inv1")
    \/ Exit("inv1")

SpecClose == InitClose /\ [][NextClose]_vars

\* One invocation of the GitHub mode, with and without a push URL.
PushURL == <<"h", "t", "t", "p", ":", "/", "/", "p", "g">>

ExitConfigs ==
    {[c EXCEPT !.PushgatewayURL = url] :
        c \in {g \in GithubConfigs : g.MinSeverity \in {"minor", "critical"}},
        url \in {"", PushURL}}

\* The cluster of these runs also holds releases that nova reports as
\* outdated although no number of the version went up: a release candidate
\* of the installed version's successor, and a latest version below the
\* installed one.
ExitReleases ==
    ClusterReleases \cup
    {Release(<<"r", "3">>, <<"c", "3">>, NsA, V100rc, V100, TRUE),
     Release(<<"r", "4">>, <<"c", "4">>, NsB, V200, V100, TRUE)}

ExitHelmAnswers ==
    {q \in SeqsUpTo(ExitReleases, MaxHelm) :
        \A i, j \in 1..Len(q) :
            (q[i].Namespace = q[j].Namespace /\ q[i].ReleaseName = q[j].ReleaseName)
                => i = j}

InitExit ==
    /\ configFile \in ExitConfigs
    /\ novaHelm \in ExitHelmAnswers
    /\ novaContainers \in ContainerAnswers
    /\ tickets = EmptyBag
    /\ runs = 0
    /\ inv = [p \in Procs |-> IdleInv]
    /\ prev = IdleInv
    /\ fnCall = [op |-> "none"]
    /\ fnRes = [done |-> FALSE]

NextExit ==
    \/ First("inv1")
    \/ StepScanHelm("inv1")
    \/ HelmSearch("inv1")
    \/ HelmCreate("inv1")
    \/ StepScanContainers("inv1")
    \/ ContainerSearch("inv1")
    \/ ContainerCreate("inv1")
    \/ Exit("inv1")

SpecExit == InitExit /\ [][NextExit]_vars

\* Two invocations started over the same cluster with no lock between them:
\* GitHub mode, dry-run off, Helm scan only, each started once, their steps
\* interleaved.
RaceConfigs ==
    {c \in GithubConfigs :
        c.ScanHelm /\ ~c.ScanContainers /\ ~c.DryRun /\ c.MinSeverity = "minor"}

InitRace ==
    /\ configFile \in RaceConfigs
    /\ novaHelm \in HelmAnswers
    /\ novaContainers = <<>>
    /\ tickets = EmptyBag
    /\ runs = 0
    /\ inv = [p \in Procs |-> IdleInv]
    /\ prev = IdleInv
    /\ fnCall = [op |-> "none"]
    /\ fnRes = [done |-> FALSE]

NextRace ==
    \E p \in Procs :
        \/ First(p)
        \/ StepScanHelm(p)
        \/ HelmSearch(p)
        \/ HelmCreate(p)
        \/ StepScanContainers(p)
        \/ Exit(p)

SpecRace == InitRace /\ [][NextRace]_vars

\* ------------------------------------------------- single calls of the filter
\* Workloads of the container handed to shouldSkipContainerForHelm.
MaxWorkloads == 2

NsC == <<"c">>
Namespaces == {NsA, NsB, NsC}

V090 == <<"0", ".", "9", ".", "9">>
V1 == <<"1">>
Vv210 == <<"v", "2", ".", "1", ".", "0">>
V1234 == <<"1", ".", "2", ".", "3", ".", "4">>

VersionStrings ==
    {V100, V101, V110, V200, V200rc, V090, V1, Vv210, T120, T125, Tlatest, V1234, <<>>}

ParsedVersions ==
    [ok : {TRUE}, Major : 0..MaxVer, Minor : 0..MaxVer, Patch : 0..MaxVer, Pre : {<<>>}]

Thresholds == {"minor", "major", "critical", "high", ""}

\* The per-chart blacklists a configuration file may carry under the key
\* chartVersionIgnorePatterns: none, or one for chart c1. The Config type has
\* no field for the key, so Load drops it and no code of the scanner reads it.
ChartLists ==
    {<<>>, << [chart |-> <<"c", "1">>, patterns |-> << <<"2", ".">> >>] >>}

FnConfigs ==
    [ScanHelm : {TRUE}, ScanContainers : {TRUE}, DryRun : {FALSE},
     MinSeverity : {"minor", "major", "critical"},
     IgnoreReleases : {<<>>, << <<"r", "3">> >>},
     IgnoreCharts : {<<>>, << <<"c", "3">> >>},
     IgnoreImages : {<<>>},
     IgnoreVersionPatterns : {<<>>, << <<"-", "r", "c">> >>},
     ChartVersionIgnorePatterns : ChartLists]

\* One release per way through the filter.
FnReleases ==
    {Release(<<"r", "1">>, <<"c", "1">>, NsA, V100, V200, TRUE),
     Release(<<"r", "3">>, <<"c", "1">>, NsA, V100, V200, TRUE),
     Release(<<"r", "1">>, <<"c", "3">>, NsB, V100, V200, TRUE),
     Release(<<"r", "2">>, <<"c", "2">>, NsA, V100, V200, FALSE),
     Release(<<"r", "2">>, <<"c", "2">>, NsB, V100, V200rc, TRUE),
     Release(<<"r", "4">>, <<"c", "2">>, NsA, V100, V101, TRUE),
     Release(<<"r", "5">>, <<"c", "2">>, NsA, V100, V110, TRUE),
     Release(<<"r", "6">>, <<"c", "2">>, NsA, V100, Tlatest, TRUE),
     Release(<<"r", "7">>, <<"c", "2">>, NsA, V200, V100, TRUE),
     Release(<<"r", "8">>, <<"c", "2">>, NsA, V100rc, V200, TRUE)}

FnInventories ==
    {q \in SeqsUpTo(FnReleases, MaxInv) :
        \A i, j \in 1..Len(q) :
            (q[i].Namespace = q[j].Namespace /\ q[i].ReleaseName = q[j].ReleaseName)
                => i = j}

\* Configurations of the container filter, and one image per way through it.
FnContainerConfigs ==
    [ScanHelm : {TRUE}, ScanContainers : {TRUE}, DryRun : {FALSE},
     MinSeverity : {"minor", "critical"},
     IgnoreReleases : {<<>>}, IgnoreCharts : {<<>>},
     IgnoreImages : {<<>>, << <<"*", "/", "p", ":", "*">> >>,
                     << <<"r", "d", "*">>, <<"*", "/", "p", ":", "*">> >>},
     IgnoreVersionPatterns : {<<>>, << <<"-", "r", "c">> >>}]

FnContainers ==
    {Container(<<"n", "g", "x">>, T120, T125, TRUE, <<NsA>>),
     Container(<<"r", "d", "s">>, T60, Tlatest, TRUE, <<>>),
     Container(<<"k", "/", "p", ":", "1">>, V100, V200, TRUE, <<NsB>>),
     Container(<<"s", "v", "c">>, V100rc, V200, TRUE, <<NsB>>),
     Container(<<"p", "r", "e">>, V100, V200rc, TRUE, <<NsA>>),
     Container(<<"c", "u", "r">>, V100, V200rc, FALSE, <<NsA>>)}

FnContainerInventories ==
    {q \in SeqsUpTo(FnContainers, MaxInv) :
        \A i, j \in 1..Len(q) : q[i].Name = q[j].Name => i = j}

\* Patterns and candidates of matchGlob: the two characters the function
\* looks for and a letter.
MaxPattern == 4
MaxCandidate == 3
GlobChars == {"*", "/", "a"}

\* Outputs of nova handed to the parse alone: a field of the object form is
\* absent, of the wrong type, an empty list or a list of one finding.
Fields(item) ==
    {[present |-> FALSE, wellTyped |-> TRUE, items |-> <<>>],
     [present |-> TRUE, wellTyped |-> FALSE, items |-> <<>>],
     [present |-> TRUE, wellTyped |-> TRUE, items |-> <<>>],
     [present |-> TRUE, wellTyped |-> TRUE, items |-> <<item>>]}

NoField == [present |-> FALSE, wellTyped |-> TRUE, items |-> <<>>]

FnRelease == Release(<<"r", "1">>, <<"c", "1">>, NsA, V100, V200, TRUE)
FnContainer == Container(<<"n", "g", "x">>, T120, T125, TRUE, <<NsA>>)

Documents(item) ==
    [kind : {"object"}, helm_releases : Fields(FnRelease),
     container_images : Fields(FnContainer), items : {<<>>}]
    \cup [kind : {"array"}, helm_releases : {NoField}, container_images : {NoField},
          items : {<<>>, <<item>>}]
    \cup [kind : {"malformed"}, helm_releases : {NoField}, container_images : {NoField},
          items : {<<>>}]

\* Values of the environment variable DRY_RUN: not set, the two that enable,
\* spellings of true, and values that are neither.
EnvValues ==
    {<<>>, <<"1">>, <<"t", "r", "u", "e">>, <<"T", "R", "U", "E">>,
     <<"T", "r", "u", "e">>, <<"t", "r", "U", "e">>, <<"0">>, <<"1", "1">>,
     <<"f", "a", "l", "s", "e">>, <<"y", "e", "s">>, <<"Y">>, <<"t">>,
     <<"t", "r", "u", "e", " ">>, <<" ">>}

Calls ==
    [op : {"applyEnvOverrides"}, DryRun : BOOLEAN, DRY_RUN : EnvValues]
    \cup [op : {"ParseHelmOutput"}, doc : Documents(FnRelease)]
    \cup [op : {"ParseContainerOutput"}, doc : Documents(FnContainer)]
    \cup [op : {"ScanContainers"}, cfg : FnContainerConfigs,
     containers : FnContainerInventories, skipNamespaces : SUBSET {NsA, NsB}]
    \cup [op : {"matchGlob"}, pattern : SeqsUpTo(GlobChars, MaxPattern),
          s : SeqsUpTo(GlobChars, MaxCandidate)]
    \cup [op : {"calculateSeverity"}, current : ParsedVersions, latest : ParsedVersions]
    \cup [op : {"meetsMinSeverity"}, MinSeverity : Thresholds,
          currentVersion : VersionStrings, latestVersion : VersionStrings]
    \cup [op : {"SeverityLevel"}, MinSeverity : Thresholds]
    \cup [op : {"shouldSkipContainerForHelm"},
          namespaces : SeqsUpTo(Namespaces, MaxWorkloads),
          skipNamespaces : SUBSET Namespaces]
    \cup [op : {"ScanHelm"}, cfg : FnConfigs, releases : FnInventories]
    \cup [op : {"OutdatedNamespaces"}, cfg : FnConfigs, releases : FnInventories]

InitFn ==
    /\ configFile = NoConfig
    /\ novaHelm = <<>>
    /\ novaContainers = <<>>
    /\ tickets = EmptyBag
    /\ runs = 0
    /\ inv = [p \in Procs |-> IdleInv]
    /\ prev = IdleInv
    /\ fnCall \in Calls
    /\ fnRes = [done |-> FALSE]

Returns(op, value) ==
    /\ fnCall.op = op
    /\ ~fnRes.done
    /\ fnRes' = [done |-> TRUE, value |-> value]
    /\ UNCHANGED <<configFile, novaHelm, novaContainers, tickets, runs, inv, prev, fnCall>>

CallCalculateSeverity ==
    /\ fnCall.op = "calculateSeverity"
    /\ Returns("calculateSeverity", calculateSeverity(fnCall.current, fnCall.latest))

CallMeetsMinSeverity ==
    /\ fnCall.op = "meetsMinSeverity"
    /\ Returns("meetsMinSeverity",
               meetsMinSeverity([NoConfig EXCEPT !.MinSeverity = fnCall.MinSeverity],
                                fnCall.currentVersion, fnCall.latestVersion))

CallSeverityLevel ==
    /\ fnCall.op = "SeverityLevel"
    /\ Returns("SeverityLevel",
               SeverityLevel([NoConfig EXCEPT !.MinSeverity = fnCall.MinSeverity]))

CallShouldSkipContainerForHelm ==
    /\ fnCall.op = "shouldSkipContainerForHelm"
    /\ Returns("shouldSkipContainerForHelm",
               shouldSkipContainerForHelm(
                   Container(<<"n", "g", "x">>, T120, T125, TRUE, fnCall.namespaces),
                   fnCall.skipNamespaces))

CallScanHelm ==
    /\ fnCall.op = "ScanHelm"
    /\ Returns("ScanHelm", ScanHelm(fnCall.cfg, fnCall.releases))

CallScanContainers ==
    /\ fnCall.op = "ScanContainers"
    /\ Returns("ScanContainers",
               ScanContainers(fnCall.cfg, fnCall.containers, fnCall.skipNamespaces))

CallMatchGlob ==
    /\ fnCall.op = "matchGlob"
    /\ Returns("matchGlob", matchGlob(fnCall.pattern, fnCall.s))

\* main: result.OutdatedNamespaces() on the result of ScanHelm.
CallOutdatedNamespaces ==
    /\ fnCall.op = "OutdatedNamespaces"
    /\ Returns("OutdatedNamespaces",
               OutdatedNamespaces(ScanHelm(fnCall.cfg, fnCall.releases)))

CallApplyEnvOverrides ==
    /\ fnCall.op = "applyEnvOverrides"
    /\ Returns("applyEnvOverrides",
               applyEnvOverrides([NoConfig EXCEPT !.DryRun = fnCall.DryRun],
                                 fnCall.DRY_RUN).DryRun)

CallParseHelmOutput ==
    /\ fnCall.op = "ParseHelmOutput"
    /\ Returns("ParseHelmOutput", ParseHelmOutput(fnCall.doc))

CallParseContainerOutput ==
    /\ fnCall.op = "ParseContainerOutput"
    /\ Returns("ParseContainerOutput", ParseContainerOutput(fnCall.doc))

NextFn ==
    \/ CallApplyEnvOverrides
    \/ CallParseHelmOutput
    \/ CallParseContainerOutput
    \/ CallScanContainers
    \/ CallMatchGlob
    \/ CallCalculateSeverity
    \/ CallMeetsMinSeverity
    \/ CallSeverityLevel
    \/ CallShouldSkipContainerForHelm
    \/ CallScanHelm
    \/ CallOutdatedNamespaces

SpecFn == InitFn /\ [][NextFn]_vars

Returned(op) == fnCall.op = op /\ fnRes.done

\* ------------------------------------------------------------------ claims
\* What an invocation has to process: the titles of its outdated releases,
\* then those of its outdated containers.
ActionableTitles(r) ==
    [k \in 1..Len(r.helm.Outdated) |-> FormatHelmIssueTitle(r.helm.Outdated[k])]
    \o [k \in 1..Len(r.cont.Outdated) |-> FormatContainerIssueTitle(r.cont.Outdated[k])]

CountEvents(r, kind) ==
    Cardinality({k \in 1..Len(r.events) : r.events[k].kind = kind})

NoTrackerError(r) ==
    \A k \in 1..Len(r.events) : r.events[k].kind \notin {"searchError", "createError"}

\* C1: in GitHub mode, with dry-run off and no tracker errors, two invocations in sequence over
\* the same ActionableSet, the tracker keeping what was created: the first makes
\* one create call per finding, the second none and skips every finding as a
\* duplicate.
C1_IdempotentRerun ==
    LET first  == prev
        second == inv["inv1"]
        n      == Len(ActionableTitles(second))
    IN  (/\ first.pc = "done"
         /\ second.pc = "done"
         /\ ~IsMarkdownMode(first.cfg)
         /\ ~IsMarkdownMode(second.cfg)
         /\ ~first.cfg.DryRun
         /\ ~second.cfg.DryRun
         /\ NoTrackerError(first)
         /\ NoTrackerError(second)
         /\ first.helm.Outdated = second.helm.Outdated
         /\ first.cont.Outdated = second.cont.Outdated)
        => /\ CountEvents(first, "created") = n
           /\ CountEvents(second, "created") = 0
           /\ CountEvents(second, "skipped") = n

\* C2: invocations never overlapping and the search seeing every earlier
\* creation, there is in every reachable state at most one open nova-scan
\* ticket per canonical title, whatever the runs and inventories were.
C2_NoDuplicateTickets ==
    \A t \in BagToSet(tickets) : CopiesIn(t, tickets) <= 1

\* A second invocation has skipped a finding whose ticket an earlier one made.
C2_Witness ==
    /\ runs >= 2
    /\ inv["inv1"].pc = "done"
    /\ \E k \in 1..Len(inv["inv1"].events) :
           /\ inv["inv1"].events[k].kind = "skipped"
           /\ CopiesIn(inv["inv1"].events[k].title, tickets) = 1

\* C3, as amended: in dry-run mode no create call is ever made, and every
\* actionable finding whose search succeeds and finds no open ticket gets a
\* "would create" event carrying its canonical title.
C3_DryRun ==
    \A p \in Procs :
        LET r      == inv[p]
            titles == ActionableTitles(r)
        IN  r.cfg.DryRun =>
                /\ r.pc \notin {"helmCreate", "containerCreate"}
                /\ Len(r.events) <= Len(titles)
                /\ (r.pc = "done" /\ r.loadErr = "") => Len(r.events) = Len(titles)
                /\ \A k \in 1..Len(r.events) :
                       /\ r.events[k].kind \in {"searchError", "skipped", "dryRun"}
                       /\ r.events[k].title = titles[k]
                       /\ (r.events[k].kind # "searchError" /\ ~issueExists(tickets, titles[k]))
                              => r.events[k].kind = "dryRun"
                       /\ r.events[k].kind = "dryRun" => ~issueExists(tickets, titles[k])

\* A dry run over a tracker that already holds a ticket: one finding skipped,
\* another one logged as "would create".
C3_Witness ==
    LET r == inv["inv1"]
    IN  /\ r.cfg.DryRun
        /\ r.pc = "done"
        /\ \E k \in 1..Len(r.events) : r.events[k].kind = "dryRun"
        /\ \E k \in 1..Len(r.events) : r.events[k].kind = "skipped"

\* C3 as stated: in dry-run mode every actionable finding without an existing
\* open ticket gets a "would create" event with its canonical title.
C3_Original ==
    \A p \in Procs :
        LET r      == inv[p]
            titles == ActionableTitles(r)
        IN  (r.cfg.DryRun /\ r.pc = "done" /\ r.loadErr = "") =>
                \A k \in 1..Len(titles) :
                    ~issueExists(tickets, titles[k]) =>
                        /\ k <= Len(r.events)
                        /\ r.events[k].kind = "dryRun"
                        /\ r.events[k].title = titles[k]

\* C4: after one invocation in GitHub mode, without dry-run and without
\* tracker errors, from a tracker holding no ticket, every actionable finding
\* has a ticket of its own: as many tickets were created as there are
\* actionable findings.
C4_OneTicketPerFinding ==
    \A p \in Procs :
        LET r      == inv[p]
            titles == ActionableTitles(r)
        IN  (/\ runs = 1
             /\ r.pc = "done"
             /\ r.loadErr = ""
             /\ ~IsMarkdownMode(r.cfg)
             /\ ~r.cfg.DryRun
             /\ NoTrackerError(r))
            => /\ CountEvents(r, "created") = Len(titles)
               /\ BagCardinality(tickets) = Len(titles)

\* C5: shouldSkipContainerForHelm is true iff the container has at least one
\* affected workload and the namespace of every one of them is in the set.
C5_SkipIffAllCovered ==
    Returned("shouldSkipContainerForHelm") =>
        (fnRes.value <=>
            /\ Len(fnCall.namespaces) >= 1
            /\ \A k \in 1..Len(fnCall.namespaces) :
                   fnCall.namespaces[k] \in fnCall.skipNamespaces)

\* Workloads in a covered and in an uncovered namespace: not skipped.
C5_Witness ==
    /\ Returned("shouldSkipContainerForHelm")
    /\ fnCall.namespaces = <<NsA, NsB>>
    /\ fnCall.skipNamespaces = {NsA}
    /\ fnRes.value = FALSE

\* C6: the Helm ActionableSet holds exactly the releases that no ignore list
\* names (release name, chart name), that are outdated, whose latest version
\* holds no blacklist substring and that pass the severity gate, in the order
\* of the inventory.
C6_HelmFilter ==
    Returned("ScanHelm") =>
        LET c == fnCall.cfg
            Keep(release) ==
                /\ \A k \in 1..Len(c.IgnoreReleases) : c.IgnoreReleases[k] # release.ReleaseName
                /\ \A k \in 1..Len(c.IgnoreCharts) : c.IgnoreCharts[k] # release.ChartName
                /\ release.IsOld = TRUE
                /\ \A k \in 1..Len(c.IgnoreVersionPatterns) :
                       ~Contains(release.Latest, c.IgnoreVersionPatterns[k])
                /\ meetsMinSeverity(c, release.Installed, release.Latest)
        IN  fnRes.value.Outdated = SelectSeq(fnCall.releases, Keep)

\* An inventory of two whose first release is filtered out and whose second
\* is kept.
C6_Witness ==
    /\ Returned("ScanHelm")
    /\ Len(fnCall.releases) = 2
    /\ fnRes.value.Outdated = <<fnCall.releases[2]>>

\* C7: a container whose tags parse and whose severity is below the threshold
\* is dropped: it is not in the container ActionableSet.
C7_ContainerSeverityGate ==
    \A p \in Procs :
        \A k \in 1..Len(inv[p].cont.Outdated) :
            meetsMinSeverity(inv[p].cfg, inv[p].cont.Outdated[k].CurrentTag,
                             inv[p].cont.Outdated[k].LatestTag)

\* C8: calculateSeverity is 3 when the major number grew, whatever minor and
\* patch are, else 2 when the minor number grew, else 1 when the patch number
\* grew, else 0.
C8_SeverityByFields ==
    Returned("calculateSeverity") =>
        LET c == fnCall.current
            l == fnCall.latest
            v == fnRes.value
        IN  /\ l.Major > c.Major => v = 3
            /\ (l.Major <= c.Major /\ l.Minor > c.Minor) => v = 2
            /\ (l.Major <= c.Major /\ l.Minor <= c.Minor /\ l.Patch > c.Patch) => v = 1
            /\ (l.Major <= c.Major /\ l.Minor <= c.Minor /\ l.Patch <= c.Patch) => v = 0

\* A major bump with minor and patch going down is critical.
C8_Witness ==
    /\ Returned("calculateSeverity")
    /\ fnCall.latest.Major > fnCall.current.Major
    /\ fnCall.latest.Minor < fnCall.current.Minor
    /\ fnCall.latest.Patch < fnCall.current.Patch
    /\ fnRes.value = 3

\* C9: for the thresholds minor, major and critical, meetsMinSeverity is true
\* iff one of the two versions does not parse or the severity of the pair is
\* at least the level of the threshold (1, 2, 3).
C9_SeverityGate ==
    (Returned("meetsMinSeverity") /\ fnCall.MinSeverity \in {"minor", "major", "critical"}) =>
        LET current == NewVersion(fnCall.currentVersion)
            latest  == NewVersion(fnCall.latestVersion)
            level   == CASE fnCall.MinSeverity = "minor" -> 1
                         [] fnCall.MinSeverity = "major" -> 2
                         [] fnCall.MinSeverity = "critical" -> 3
        IN  fnRes.value <=>
                \/ ~current.ok
                \/ ~latest.ok
                \/ calculateSeverity(current, latest) >= level

\* An unparsable latest version passes the strictest threshold.
C9_Witness ==
    /\ Returned("meetsMinSeverity")
    /\ fnCall.MinSeverity = "critical"
    /\ fnCall.currentVersion = V100
    /\ fnCall.latestVersion = Tlatest
    /\ fnRes.value = TRUE

\* C10, as amended: SeverityLevel is 1 for every threshold other than major and
\* critical; an invocation whose loaded threshold is none of minor, major,
\* critical is rejected by validate and exits with status 1 before any scan,
\* while the threshold minor is accepted and filtering runs at level 1.
C10_FallbackLevel ==
    \A p \in Procs :
        LET r == inv[p]
        IN  r.pc # "idle" =>
                /\ r.cfg.MinSeverity \notin {"major", "critical"} => SeverityLevel(r.cfg) = 1
                /\ r.cfg.MinSeverity \notin {"minor", "major", "critical"} =>
                       /\ r.loadErr # ""
                       /\ r.pc = "done"
                       /\ r.exit = 1
                       /\ r.helm.status = "none"
                       /\ r.cont.status = "none"
                       /\ r.events = <<>>
                /\ r.cfg.MinSeverity = "minor" => r.loadErr = ""

\* An invocation loaded the threshold "high" and ended at once with status 1.
C10_Witness ==
    /\ inv["inv1"].cfg.MinSeverity = "high"
    /\ inv["inv1"].pc = "done"
    /\ inv["inv1"].exit = 1
    /\ SeverityLevel(inv["inv1"].cfg) = 1

\* C10 as stated: with any threshold other than major and critical the engine
\* uses level 1 and filtering proceeds rather than failing.
C10_Original ==
    \A p \in Procs :
        (inv[p].pc # "idle" /\ inv[p].cfg.MinSeverity \notin {"major", "critical"}) =>
            /\ SeverityLevel(inv[p].cfg) = 1
            /\ inv[p].loadErr = ""

\* C11: a release of chart X whose latest version holds a substring of chart
\* X's own blacklist is not in the Helm ActionableSet, a release of another
\* chart with the same latest version and no global match stays in it; a match
\* in the global list or in the chart's own list is enough to drop a release.
C11_ChartBlacklist ==
    Returned("ScanHelm") =>
        LET c == fnCall.cfg
            lists == c.ChartVersionIgnorePatterns
            Blacklisted(release) ==
                \/ \E k \in 1..Len(c.IgnoreVersionPatterns) :
                       Contains(release.Latest, c.IgnoreVersionPatterns[k])
                \/ \E n \in 1..Len(lists) :
                       /\ lists[n].chart = release.ChartName
                       /\ \E k \in 1..Len(lists[n].patterns) :
                              Contains(release.Latest, lists[n].patterns[k])
            Keep(release) ==
                /\ ~shouldIgnoreRelease(c, release)
                /\ release.IsOld
                /\ ~Blacklisted(release)
                /\ meetsMinSeverity(c, release.Installed, release.Latest)
        IN  fnRes.value.Outdated = SelectSeq(fnCall.releases, Keep)

\* C12: in the Helm scan and in the container scan, an outdated finding that
\* no ignore list names is dropped by the blacklist iff its latest version
\* holds one of the configured entries as a substring: the installed version
\* plays no part, and with no entries nothing is dropped by this step.
C12_GlobalBlacklist ==
    LET c == fnCall.cfg
        Listed(version) ==
            \E k \in 1..Len(c.IgnoreVersionPatterns) :
                \E at \in 0..Len(version) :
                    /\ at + Len(c.IgnoreVersionPatterns[k]) <= Len(version)
                    /\ \A n \in 1..Len(c.IgnoreVersionPatterns[k]) :
                           version[at + n] = c.IgnoreVersionPatterns[k][n]
        In(x, q) == \E k \in 1..Len(q) : q[k] = x
    IN  /\ Returned("ScanHelm") =>
            \A k \in 1..Len(fnCall.releases) :
                LET release == fnCall.releases[k]
                IN  (release.IsOld /\ ~shouldIgnoreRelease(c, release)) =>
                        IF Listed(release.Latest)
                        THEN ~In(release, fnRes.value.Outdated)
                        ELSE In(release, fnRes.value.Outdated)
                                 <=> meetsMinSeverity(c, release.Installed, release.Latest)
        /\ Returned("ScanContainers") =>
            \A k \in 1..Len(fnCall.containers) :
                LET container == fnCall.containers[k]
                IN  (container.IsOld /\ ~shouldIgnoreContainer(c, container)) =>
                        (Listed(container.LatestTag)
                            <=> /\ ~In(container, fnRes.value.Outdated)
                                /\ ~In(container, fnRes.value.Skipped))

\* With "-rc" on the blacklist, an image whose current tag holds it is kept
\* and an image whose latest tag holds it is dropped.
C12_Witness ==
    /\ Returned("ScanContainers")
    /\ fnCall.cfg.IgnoreVersionPatterns = << <<"-", "r", "c">> >>
    /\ Len(fnCall.containers) = 2
    /\ fnCall.containers[1].CurrentTag = V100rc
    /\ fnCall.containers[2].LatestTag = V200rc
    /\ fnCall.containers[2].IsOld
    /\ fnRes.value.Outdated = <<fnCall.containers[1]>>
    /\ fnRes.value.Skipped = <<>>

\* C13, as amended: for every pattern */X with X not empty, an X with wildcards
\* included, and every candidate, matchGlob is true iff the candidate holds a
\* "/" at some position and what follows that position matches X; the pattern
\* */ with nothing after it matches the candidate */ and no other.
C13_PathPrefixGlobNonEmpty ==
    (/\ Returned("matchGlob")
     /\ Len(fnCall.pattern) >= 2
     /\ fnCall.pattern[1] = "*"
     /\ fnCall.pattern[2] = "/")
    => LET X == SubSeq(fnCall.pattern, 3, Len(fnCall.pattern))
           s == fnCall.s
       IN  IF X = <<>>
           THEN fnRes.value <=> s = <<"*", "/">>
           ELSE fnRes.value <=>
                    \E i \in 1..Len(s) :
                        /\ s[i] = "/"
                        /\ matchGlob(X, SubSeq(s, i + 1, Len(s)))

\* The pattern */a against //a: the first "/" does not do, the second does.
C13_Witness ==
    /\ Returned("matchGlob")
    /\ fnCall.pattern = <<"*", "/", "a">>
    /\ fnCall.s = <<"/", "/", "a">>
    /\ fnRes.value = TRUE

\* C13 as stated: for every pattern */X, the empty X and an X with wildcards
\* included, and every candidate, matchGlob is true iff the candidate holds a
\* "/" at some position and what follows that position matches X; a candidate
\* without "/" does not match.
C13_PathPrefixGlob ==
    (/\ Returned("matchGlob")
     /\ Len(fnCall.pattern) >= 2
     /\ fnCall.pattern[1] = "*"
     /\ fnCall.pattern[2] = "/")
    => LET X == SubSeq(fnCall.pattern, 3, Len(fnCall.pattern))
           s == fnCall.s
       IN  fnRes.value <=>
               \E i \in 1..Len(s) :
                   /\ s[i] = "/"
                   /\ matchGlob(X, SubSeq(s, i + 1, Len(s)))

\* C14: matchGlob is true only if the pattern is *, or equals the candidate,
\* or has the form */X and the candidate holds a "/" followed by a match of X,
\* or ends in * without having the form */... and the candidate starts with
\* what precedes that *; a pattern of any other shape matches the identical
\* candidate alone.
C14_RestrictedGrammar ==
    (Returned("matchGlob") /\ fnRes.value = TRUE) =>
        LET pattern == fnCall.pattern
            s == fnCall.s
            n == Len(pattern)
            PathForm == n >= 2 /\ pattern[1] = "*" /\ pattern[2] = "/"
        IN  \/ pattern = <<"*">>
            \/ pattern = s
            \/ /\ PathForm
               /\ \E i \in 1..Len(s) :
                      /\ s[i] = "/"
                      /\ matchGlob(SubSeq(pattern, 3, n), SubSeq(s, i + 1, Len(s)))
            \/ /\ ~PathForm
               /\ n >= 1
               /\ pattern[n] = "*"
               /\ Len(s) >= n - 1
               /\ \A k \in 1..(n - 1) : s[k] = pattern[k]

\* The pattern a/* matches a/a by its prefix.
C14_Witness ==
    /\ Returned("matchGlob")
    /\ fnCall.pattern = <<"a", "/", "*">>
    /\ fnCall.s = <<"a", "/", "a">>
    /\ fnRes.value = TRUE

\* C15: with both scan types enabled, in GitHub mode and in markdown mode, an
\* invocation whose Helm scan failed still runs the container scan, and the
\* outdated containers it finds are still processed.
C15_ScanIndependence ==
    \A p \in Procs :
        LET r == inv[p]
            containerTitles ==
                [k \in 1..Len(r.cont.Outdated) |->
                    FormatContainerIssueTitle(r.cont.Outdated[k])]
        IN  (/\ r.pc = "done"
             /\ r.loadErr = ""
             /\ r.cfg.ScanHelm
             /\ r.cfg.ScanContainers
             /\ r.helm.status = "error")
            => /\ r.cont.status # "none"
               /\ r.cont.status = "ok" =>
                      IF IsMarkdownMode(r.cfg)
                      THEN r.sb = containerTitles
                      ELSE [k \in 1..Len(r.events) |-> r.events[k].title] = containerTitles

\* C16: when the scan of one type fails (the nova call returns an error or
\* its output cannot be decoded), the invocation makes no tracker call for
\* any finding of that type, records neither an outdated count nor a version
\* info for it, and increments the scan error counter.
C16_AllOrNothing ==
    \A p \in Procs :
        LET r == inv[p]
            failures == (IF r.helm.status = "error" THEN 1 ELSE 0)
                        + (IF r.cont.status = "error" THEN 1 ELSE 0)
        IN  /\ r.helm.status = "error" =>
                /\ \A k \in 1..Len(r.events) : r.events[k].type # "helm"
                /\ r.pc \notin {"helmSearch", "helmCreate"}
                /\ r.m.IssuesCreatedTotal.helm = 0
                /\ r.m.OutdatedHelmChartsTotal = 0
                /\ r.m.HelmChartVersionInfo = {}
            /\ r.cont.status = "error" =>
                /\ \A k \in 1..Len(r.events) : r.events[k].type # "container"
                /\ r.pc \notin {"containerSearch", "containerCreate"}
                /\ r.m.IssuesCreatedTotal.container = 0
                /\ r.m.OutdatedContainersTotal = 0
                /\ r.m.ContainerVersionInfo = {}
            /\ r.m.ScanErrorsTotal = failures

\* C17: when the existence search for a finding fails, no create call is made
\* for that finding, the failure is reported for that finding as a search
\* error (the finding is not taken for new), and the invocation goes on to
\* the next finding.
C17_SearchFailure ==
    [][\A p \in Procs :
          (HelmSearchAnswered(p, TRUE) \/ ContainerSearchAnswered(p, TRUE)) =>
              LET before == inv[p]
                  after  == inv[p]'
                  title  == IF before.pc = "helmSearch"
                            THEN FormatHelmIssueTitle(before.helm.Outdated[before.i])
                            ELSE FormatContainerIssueTitle(before.cont.Outdated[before.i])
                  more   == IF before.pc = "helmSearch"
                            THEN before.i < Len(before.helm.Outdated)
                            ELSE before.i < Len(before.cont.Outdated)
              IN  /\ tickets' = tickets
                  /\ after.m.IssuesCreatedTotal = before.m.IssuesCreatedTotal
                  /\ after.events = Append(before.events,
                         [kind |-> "searchError",
                          type |-> IF before.pc = "helmSearch" THEN "helm" ELSE "container",
                          title |-> title])
                  /\ IF more
                     THEN after.pc = before.pc /\ after.i = before.i + 1
                     ELSE after.pc = IF before.pc = "helmSearch" THEN "containers" ELSE "push"
    ]_vars

\* An invocation over an empty tracker whose first search failed and whose
\* second finding got its ticket: the first finding has none.
C17_Witness ==
    LET r == inv["inv1"]
    IN  /\ r.pc = "done"
        /\ Len(r.events) >= 2
        /\ r.events[1].kind = "searchError"
        /\ r.events[2].kind = "created"
        /\ CopiesIn(r.events[1].title, tickets) = 0

\* C18: when the create call for one finding fails, every later finding of
\* the ActionableSet, and the other scan type, is still processed in the same
\* invocation: each finding gets its own search and, where that allows it,
\* its own create call.
C18_CreateFailurePerItem ==
    \A p \in Procs :
        LET r      == inv[p]
            titles == ActionableTitles(r)
        IN  (/\ r.pc = "done"
             /\ r.loadErr = ""
             /\ ~IsMarkdownMode(r.cfg)
             /\ \E k \in 1..Len(r.events) : r.events[k].kind = "createError")
            => /\ Len(r.events) = Len(titles)
               /\ \A k \in 1..Len(titles) : r.events[k].title = titles[k]
               /\ r.cfg.ScanContainers => r.cont.status # "none"
               /\ r.cont.status = "ok" =>
                      Len(r.events) = Len(r.helm.Outdated) + Len(r.cont.Outdated)

\* The create call for the first release failed; the container found after
\* it got its ticket.
C18_Witness ==
    LET r == inv["inv1"]
    IN  /\ r.pc = "done"
        /\ Len(r.events) >= 2
        /\ r.events[1].kind = "createError"
        /\ r.events[1].type = "helm"
        /\ r.events[Len(r.events)].kind = "created"
        /\ r.events[Len(r.events)].type = "container"

\* C19: two invocations running at the same time over the same inventory,
\* with no lock, can both finish the search for a title before either creates
\* it, and the tracker then holds two open tickets of that title (C19_Witness
\* is that state). The duplicate comes from the interleaving alone: every
\* open ticket was created by one invocation, and no invocation creates the
\* same title twice.
C19_AcceptedRace ==
    LET Created(p, t) ==
            Cardinality({k \in 1..Len(inv[p].events) :
                /\ inv[p].events[k].kind = "created"
                /\ inv[p].events[k].title = t})
    IN  /\ \A t \in BagToSet(tickets) :
               CopiesIn(t, tickets) = Created("inv1", t) + Created("inv2", t)
        /\ \A p \in Procs :
               \A k \in 1..Len(inv[p].events) :
                   inv[p].events[k].kind = "created" => Created(p, inv[p].events[k].title) = 1

\* Both invocations have exited; each found no ticket for the title of the
\* first release and created one: two open tickets with the same title.
C19_Witness ==
    /\ inv["inv1"].pc = "done"
    /\ inv["inv2"].pc = "done"
    /\ inv["inv1"].events # <<>>
    /\ inv["inv2"].events # <<>>
    /\ inv["inv1"].events[1].kind = "created"
    /\ inv["inv2"].events[1] = inv["inv1"].events[1]
    /\ CopiesIn(inv["inv1"].events[1].title, tickets) = 2

\* C20: within one invocation, in both output modes, the Helm scan and its
\* classification are over before the container scan starts, and the
\* container scan skips containers by exactly the namespaces of the outdated
\* releases that this invocation's Helm scan found (none when the Helm scan
\* was off or failed).
C20_HelmBeforeContainers ==
    \A p \in Procs :
        LET r == inv[p]
            namespaces == {r.helm.Outdated[k].Namespace : k \in 1..Len(r.helm.Outdated)}
        IN  /\ r.pc \in {"idle", "helm", "helmSearch", "helmCreate", "markdown", "mdHelm"}
                   => r.cont.status = "none"
            /\ (r.cont.status # "none" /\ r.cfg.ScanHelm) => r.helm.status # "none"
            /\ r.helm.status = "ok"
                   => r.helm.Outdated = ScanHelm(r.cfg, novaHelm).Outdated
            /\ r.helm.status # "ok" => r.helm.Outdated = <<>>
            /\ r.cont.status = "ok"
                   => LET result == ScanContainers(r.cfg, novaContainers, namespaces)
                      IN  /\ r.cont.AllContainers = result.AllContainers
                          /\ r.cont.Outdated = result.Outdated
                          /\ r.cont.Skipped = result.Skipped

\* A finished container scan that skipped a container because this
\* invocation's Helm scan found an outdated release in its namespace.
C20_Witness ==
    \E p \in Procs :
        /\ inv[p].helm.status = "ok"
        /\ inv[p].helm.Outdated # <<>>
        /\ inv[p].cont.status = "ok"
        /\ inv[p].cont.Skipped # <<>>

\* The elements of a sequence.
Range(q) == {q[k] : k \in 1..Len(q)}

\* C21: the skipped containers are never acted on. After every container
\* scan Outdated and Skipped are disjoint, every kept container that is
\* outdated and not blacklisted is in exactly one of them, and no search or
\* create event, version-info record, outdated count or preview entry is made
\* for a skipped container.
C21_SkipSetNeverActedOn ==
    \A p \in Procs :
        LET r == inv[p]
            skippedTitles == {FormatContainerIssueTitle(x) : x \in Range(r.cont.Skipped)}
        IN  r.cont.status = "ok" =>
                /\ Range(r.cont.Outdated) \cap Range(r.cont.Skipped) = {}
                /\ Range(r.cont.Outdated) \cup Range(r.cont.Skipped)
                       = {x \in Range(r.cont.AllContainers) :
                              x.IsOld /\ ~ShouldIgnoreVersion(r.cfg, x.LatestTag)}
                /\ \A k \in 1..Len(r.events) : r.events[k].title \notin skippedTitles
                /\ r.m.ContainerVersionInfo \cap Range(r.cont.Skipped) = {}
                /\ r.m.OutdatedContainersTotal =
                       (IF IsMarkdownMode(r.cfg) THEN 0 ELSE Len(r.cont.Outdated))
                /\ \A k \in 1..Len(r.sb) : r.sb[k] \notin skippedTitles

\* A GitHub-mode invocation that created a ticket for a release, skipped a
\* container of the same namespace, and exited.
C21_Witness ==
    /\ inv["inv1"].pc = "done"
    /\ ~IsMarkdownMode(inv["inv1"].cfg)
    /\ inv["inv1"].cont.status = "ok"
    /\ inv["inv1"].cont.Skipped # <<>>
    /\ CountEvents(inv["inv1"], "created") > 0

\* C22: the metric counters track the events exactly. In one invocation the
\* scan-error counter holds one increment for each scan type whose scan
\* failed and nothing else, and the ticket-created counter of each type holds
\* one increment for each ticket created, none for a finding that was skipped
\* as a duplicate, handled in dry-run, or whose search or create call failed.
C22_CountersExact ==
    \A p \in Procs :
        LET r == inv[p]
            Created(type) ==
                Cardinality({k \in 1..Len(r.events) :
                    r.events[k].kind = "created" /\ r.events[k].type = type})
        IN  /\ r.m.ScanErrorsTotal =
                   (IF r.helm.status = "error" THEN 1 ELSE 0)
                   + (IF r.cont.status = "error" THEN 1 ELSE 0)
            /\ r.m.IssuesCreatedTotal.helm = Created("helm")
            /\ r.m.IssuesCreatedTotal.container = Created("container")

\* C23: for each scan type the output of nova is decoded as the object form
\* first and, when that fails, as the bare array; the scan fails with a decode
\* error only when both fail, and an output that carries findings in either
\* form is never read as an empty inventory.
C23_TaggedVariantDecode ==
    \A type \in {"helm", "container"} :
        LET op == IF type = "helm" THEN "ParseHelmOutput" ELSE "ParseContainerOutput"
        IN  Returned(op) =>
                LET doc       == fnCall.doc
                    primary   == UnmarshalNovaOutput(doc)
                    listed    == IF type = "helm" THEN primary.HelmReleases
                                 ELSE primary.Containers
                    secondary == UnmarshalArray(doc)
                    result    == fnRes.value
                IN  /\ primary.ok => result = [ok |-> TRUE, items |-> listed]
                    /\ (~primary.ok /\ secondary.ok)
                           => result = [ok |-> TRUE, items |-> secondary.items]
                    /\ (~primary.ok /\ ~secondary.ok) => ~result.ok
                    /\ ((primary.ok /\ listed # <<>>) \/ (secondary.ok /\ secondary.items # <<>>))
                           => (result.ok /\ result.items # <<>>)

\* C24: OutdatedNamespaces is exactly the set of the namespaces of the
\* actionable releases (not ignored, outdated, latest version not blacklisted,
\* severe enough); a namespace all of whose releases fail one of these is not
\* in it, and a container that runs only there is not skipped.
C24_OutdatedNamespaces ==
    Returned("OutdatedNamespaces") =>
        LET c == fnCall.cfg
            q == fnCall.releases
            Actionable(x) ==
                /\ ~shouldIgnoreRelease(c, x)
                /\ x.IsOld
                /\ ~ShouldIgnoreVersion(c, x.Latest)
                /\ meetsMinSeverity(c, x.Installed, x.Latest)
            expected == {q[k].Namespace : k \in {j \in 1..Len(q) : Actionable(q[j])}}
        IN  /\ fnRes.value = expected
            /\ \A ns \in Namespaces \ expected :
                   ~shouldSkipContainerForHelm(
                        Container(<<"n", "g", "x">>, T120, T125, TRUE, <<ns>>), fnRes.value)

\* Two releases in two namespaces, the one in namespace b dropped by the
\* filter: the set holds namespace a alone.
C24_Witness ==
    /\ Returned("OutdatedNamespaces")
    /\ Len(fnCall.releases) = 2
    /\ \E k \in 1..2 : fnCall.releases[k].Namespace = NsB
    /\ fnRes.value = {NsA}

\* C25: the ignore rules are a logical OR and come first. A release is
\* ignored iff its name is an ignore-release entry or its chart is an
\* ignore-chart entry, a container iff its image name matches at least one
\* ignore-image pattern; what is ignored is in none of the lists of the
\* result, whatever its outdated flag, versions or workloads, and what is not
\* ignored is in the list of all.
C25_IgnoreIsOrAndFirst ==
    /\ Returned("ScanHelm") =>
           LET c == fnCall.cfg
               Ignored(x) ==
                   \/ x.ReleaseName \in Range(c.IgnoreReleases)
                   \/ x.ChartName \in Range(c.IgnoreCharts)
               kept == {x \in Range(fnCall.releases) : ~Ignored(x)}
           IN  /\ Range(fnRes.value.AllReleases) = kept
               /\ Range(fnRes.value.Outdated) \subseteq kept
    /\ Returned("ScanContainers") =>
           LET c == fnCall.cfg
               Ignored(x) == \E pattern \in Range(c.IgnoreImages) : matchGlob(pattern, x.Name)
               kept == {x \in Range(fnCall.containers) : ~Ignored(x)}
           IN  /\ Range(fnRes.value.AllContainers) = kept
               /\ Range(fnRes.value.Outdated) \subseteq kept
               /\ Range(fnRes.value.Skipped) \subseteq kept

\* An outdated release whose chart is listed and whose name is not, next to
\* a release that is kept: the result holds the second one only.
C25_Witness ==
    /\ Returned("ScanHelm")
    /\ Len(fnCall.releases) = 2
    /\ fnCall.cfg.IgnoreReleases # <<>>
    /\ fnCall.releases[1].IsOld
    /\ fnCall.releases[1].ChartName \in Range(fnCall.cfg.IgnoreCharts)
    /\ fnCall.releases[1].ReleaseName \notin Range(fnCall.cfg.IgnoreReleases)
    /\ fnRes.value.AllReleases = <<fnCall.releases[2]>>

\* C26: only open, labelled tickets suppress a creation. When the second of
\* two invocations runs with dry-run off and without tracker errors, a finding
\* whose title no ticket open at its start held gets exactly one new ticket,
\* also when tickets of that title were closed before; a finding whose title
\* an open ticket held gets none.
C26_OnlyOpenTicketsSuppress ==
    LET first  == prev
        second == inv["inv1"]
        Created(t) ==
            Cardinality({k \in 1..Len(second.events) :
                second.events[k].kind = "created" /\ second.events[k].title = t})
        openAtStart ==
            {x \in BagToSet(tickets) : Head(x) # "closed" /\ CopiesIn(x, tickets) > Created(x)}
    IN  (/\ first.pc = "done"
         /\ second.pc = "done"
         /\ ~second.cfg.DryRun
         /\ NoTrackerError(second))
        => \A t \in Range(ActionableTitles(second)) :
               IF \E x \in openAtStart : Contains(x, escapeSearchQuery(t))
               THEN Created(t) = 0
               ELSE Created(t) = 1 /\ CopiesIn(t, tickets) = 1

\* The first invocation created a ticket, the ticket was closed, and the
\* second invocation created a new one of the same title: one closed, one open.
C26_Witness ==
    /\ prev.pc = "done"
    /\ inv["inv1"].pc = "done"
    /\ prev.events # <<>>
    /\ prev.events[1].kind = "created"
    /\ inv["inv1"].events # <<>>
    /\ inv["inv1"].events[1] = prev.events[1]
    /\ CopiesIn(Closed(prev.events[1].title), tickets) = 1
    /\ CopiesIn(prev.events[1].title, tickets) = 1

\* C27: when the Helm scan of an invocation is disabled or fails, the
\* namespace set handed to the container scan is empty: the container scan
\* skips nothing, and every kept container that is outdated and not
\* blacklisted is actionable.
C27_NoHelmNoSkip ==
    \A p \in Procs :
        LET r == inv[p]
        IN  (/\ r.cont.status = "ok"
             /\ (~r.cfg.ScanHelm \/ r.helm.status = "error"))
            => /\ r.outdatedHelmNamespaces = {}
               /\ r.cont.Skipped = <<>>
               /\ Range(r.cont.Outdated)
                      = {x \in Range(r.cont.AllContainers) :
                             x.IsOld /\ ~ShouldIgnoreVersion(r.cfg, x.LatestTag)}

\* The Helm scan failed, the cluster holds an outdated release in the
\* namespace of the only workload of an outdated container, and the
\* container scan reported that container as outdated.
C27_Witness ==
    /\ inv["inv1"].helm.status = "error"
    /\ inv["inv1"].cont.status = "ok"
    /\ inv["inv1"].cont.Outdated # <<>>
    /\ \E k \in 1..Len(novaHelm) :
           /\ novaHelm[k].IsOld
           /\ inv["inv1"].cont.Outdated[1].AffectedWorkloads # <<>>
           /\ \A w \in Range(inv["inv1"].cont.Outdated[1].AffectedWorkloads) :
                  w.Namespace = novaHelm[k].Namespace

\* C28: in GitHub mode the run ends with a failure status iff an enabled
\* scan type failed; failed searches, failed creations and a failed metrics
\* push leave the status alone, and with a push URL configured the push is
\* attempted before every exit, also after a scan failure.
C28_ExitStatus ==
    \A p \in Procs :
        LET r == inv[p]
        IN  /\ (r.pc = "done" /\ r.loadErr = "" /\ ~IsMarkdownMode(r.cfg))
                => /\ r.exit \in {0, 1}
                   /\ r.exit = 1 <=>
                          \/ (r.cfg.ScanHelm /\ r.helm.status = "error")
                          \/ (r.cfg.ScanContainers /\ r.cont.status = "error")
                   /\ r.pushed # "none" <=> r.cfg.PushgatewayURL # ""
            /\ (r.pc # "done" /\ ~IsMarkdownMode(r.cfg))
                => (r.exit = -1 /\ r.pushed = "none")

\* A run whose scans succeeded, that had a failed search or creation and a
\* failed metrics push, and exited with status 0.
C28_Witness ==
    /\ inv["inv1"].pc = "done"
    /\ inv["inv1"].exit = 0
    /\ inv["inv1"].pushed = "failed"
    /\ ~NoTrackerError(inv["inv1"])

\* C29: a release that nova reports as outdated and whose two versions
\* parse to a severity of 0 is dropped at every threshold, minor included: it
\* is not in Outdated, has no version-info record, no search or create event
\* and no ticket, and its namespace is in the outdated-namespace set only
\* when another, actionable release is in that namespace.
C29_SeverityZeroDropped ==
    \A p \in Procs :
        LET r == inv[p]
        IN  \A x \in Range(novaHelm) :
                (/\ x.IsOld
                 /\ NewVersion(x.Installed).ok
                 /\ NewVersion(x.Latest).ok
                 /\ calculateSeverity(NewVersion(x.Installed), NewVersion(x.Latest)) = 0)
                => /\ x \notin Range(r.helm.Outdated)
                   /\ x \notin r.m.HelmChartVersionInfo
                   /\ \A k \in 1..Len(r.events) :
                          r.events[k].title # FormatHelmIssueTitle(x)
                   /\ ~BagIn(FormatHelmIssueTitle(x), tickets)
                   /\ x.Namespace \in r.outdatedHelmNamespaces
                          => \E y \in Range(r.helm.Outdated) : y.Namespace = x.Namespace

\* At the threshold minor, a finished run over a release candidate's
\* successor alone in namespace a and an outdated container there: the Helm
\* scan kept the release and reported nothing, no ticket exists for it, and
\* the container was not skipped.
C29_Witness ==
    /\ inv["inv1"].pc = "done"
    /\ inv["inv1"].cfg.MinSeverity = "minor"
    /\ inv["inv1"].helm.status = "ok"
    /\ Len(inv["inv1"].helm.AllReleases) = 1
    /\ inv["inv1"].helm.AllReleases[1].Installed = V100rc
    /\ inv["inv1"].helm.AllReleases[1].Latest = V100
    /\ inv["inv1"].helm.Outdated = <<>>
    /\ inv["inv1"].cont.status = "ok"
    /\ inv["inv1"].cont.Outdated # <<>>
    /\ inv["inv1"].cont.Outdated[1].AffectedWorkloads # <<>>

\* C30: when DRY_RUN is set to a non-empty value the effective dry-run flag
\* is true iff the value is "1" or is "true" in any mix of upper and lower
\* case; any other non-empty value makes it false, also when the file had
\* enabled dry-run; an unset or empty DRY_RUN leaves the value of the file.
C30_DryRunOverride ==
    Returned("applyEnvOverrides") =>
        LET v == fnCall.DRY_RUN
            isTrue ==
                /\ Len(v) = 4
                /\ v[1] \in {"t", "T"}
                /\ v[2] \in {"r", "R"}
                /\ v[3] \in {"u", "U"}
                /\ v[4] \in {"e", "E"}
        IN  IF v = <<>> THEN fnRes.value = fnCall.DryRun
            ELSE fnRes.value = (v = <<"1">> \/ isTrue)

\* The file enabled dry-run and DRY_RUN is "yes": dry-run is off.
C30_Witness ==
    /\ Returned("applyEnvOverrides")
    /\ fnCall.DryRun
    /\ fnCall.DRY_RUN = <<"y", "e", "s">>
    /\ ~fnRes.value

====
